---- MODULE Spec2Model ----
(***************************************************************************)
(* Model of the hotkey engine of viraction (src/src/hotkey_listener.rs):   *)
(* HotkeyListener with its ActionMapping table, the reverse lookup, the    *)
(* callback channel fed by the OS hook, and poll.                          *)
(*                                                                         *)
(* Time is counted in ticks of 200 ms.  Key names are numbered by their    *)
(* rank in the lexicographic order of the name strings (which is the order *)
(* keys.sort() uses); KeyCodes are the numbers from_str gives them.        *)
(***************************************************************************)
EXTENDS Integers, Sequences, FiniteSets, TLC

VARIABLES
    actions,            \* HotkeyListener.actions: hash -> ActionMapping
    reverse_lookup,     \* HotkeyListener.reverse_lookup: KeyCode -> Vec<u64>
    hooks,              \* keys the livesplit Hook holds a callback for
    min_elapsed_time,   \* HotkeyListener.min_elapsed_time, in ticks
    channel,            \* callback_sender/callback_receiver: KeyCodes in flight
    poll_pc,            \* where a running poll stands: "recv" between is_empty() and recv()
    now,                \* Instant::now(), in ticks
    call,               \* the step taken last, with its arguments
    result,             \* what that step returned ("Panic": unreachable!() hit)
    sent,               \* what that step sent on listener_sender, in order
    hookLog,            \* the Hook calls that step made, in order
    calls,              \* history: register/unregister calls made so far
    presses,            \* history: the physical presses, [key, at, queued]
    drains,             \* history: the times at which poll received an event
    since               \* history: per group, what happened since its creation

vars == <<actions, reverse_lookup, hooks, min_elapsed_time, channel, poll_pc,
          now, call, result, sent, hookLog, calls, presses, drains, since>>

\* the variables of the engine and its surroundings; the history variables
\* are written by the specifications below, never by an operation
history == <<calls, presses, drains, since>>

----------------------------------------------------------------------------
(* Bounds of the model *)

MaxKeys == 2        \* longest key-name list passed to register/unregister
MaxGroups == 2      \* most ActionMappings in the table at once
MaxCalls == 2       \* most register/unregister calls in a run of Spec, SpecDrain
MaxTableCalls == 3  \* most register/unregister calls in a run of SpecTables
MaxCombo == 3       \* most keys of the key sequence in a run of SpecCombo
MaxGroupCalls == 3  \* most register/unregister calls in a run of SpecGroups
MaxPresses == 3     \* most key presses in a run of SpecDrain
MaxQueue == 2       \* most key events pending in the channel
MaxTime == 2        \* the clock stops advancing after this many ticks

(* Program constants, in ticks of 200 ms *)

DefaultWindow == 1  \* Duration::from_secs_f32(0.2)
Offset == 300       \* Duration::from_secs(60)

----------------------------------------------------------------------------
(* Inputs *)

\* Key names by lexicographic rank: 1 "ControlLeft", 2 "KeyS", 3 "Nope",
\* 4 "ShiftLeft".  "Nope" is not a name KeyCode::from_str knows.
Names == {1, 2, 3, 4}

ActionNames == {"x", "y"}

\* window values handed to set_min_elapsed_time: 0.2 s and 70 s
Windows == {DefaultWindow, Offset + 50}

BadKeyCode == 0

\* KeyCode::from_str on the names above (BadKeyCode: Err(()))
from_str(name) ==
    CASE name = 1 -> 2
      [] name = 2 -> 5
      [] name = 4 -> 7
      [] OTHER -> BadKeyCode

KeyCodes == {from_str(n) : n \in Names} \ {BadKeyCode}

RECURSIVE SeqsUpTo(_, _)
SeqsUpTo(S, n) ==
    IF n = 0 THEN {<<>>}
    ELSE LET shorter == SeqsUpTo(S, n - 1)
         IN shorter \cup {Append(s, x) : s \in {t \in shorter : Len(t) = n - 1}, x \in S}

\* the key-name lists handed to register_action and unregister_action:
\* "ControlLeft", "KeyS" and "Nope" in every order, repeats included
KeyLists == SeqsUpTo({1, 2, 3}, MaxKeys) \ {<<>>}

\* the key sequences of SpecCombo: distinct known names, in every order
ComboLists ==
    {l \in SeqsUpTo({n \in Names : from_str(n) # BadKeyCode}, MaxCombo) :
        /\ l # <<>>
        /\ \A i, j \in 1..Len(l) : i # j => l[i] # l[j]}

Range(s) == {s[i] : i \in 1..Len(s)}

contains(v, x) == \E i \in 1..Len(v) : v[i] = x

\* Vec::retain(|e| e != x)
retain_ne(v, x) == SelectSeq(v, LAMBDA e : e # x)

----------------------------------------------------------------------------
(* Canonicalisation: string_slice_to_vec_and_hash and get_hash *)

HashBase == 8

\* Hash of Vec<KeyCode>: the length prefix, then every element in order.
\* DefaultHasher (SipHash) is replaced by a positional code, which like
\* SipHash depends on the order of the elements and has no collision among
\* the vectors of the model.
RECURSIVE hash_from(_, _, _)
hash_from(h, key_codes, i) ==
    IF i > Len(key_codes) THEN h
    ELSE hash_from(h * HashBase + key_codes[i], key_codes, i + 1)

get_hash(key_codes) == hash_from(Len(key_codes), key_codes, 1)

\* keys.sort() on the name strings
sort_names(keys) == SortSeq(keys, LAMBDA a, b : a < b)

\* string_slice_to_vec_and_hash skipping the names from_str does not know
string_slice_to_vec_and_hash_skipping(keys) ==
    LET sorted == SelectSeq(sort_names(keys),
                            LAMBDA n : from_str(n) # BadKeyCode)
        codes == [i \in 1..Len(sorted) |-> from_str(sorted[i])]
    IN [ok |-> TRUE, key_codes |-> codes, hash |-> get_hash(codes)]

string_slice_to_vec_and_hash(keys) ==
    LET sorted == sort_names(keys)
        codes == [i \in 1..Len(sorted) |-> from_str(sorted[i])]
    IN IF \E i \in 1..Len(sorted) : codes[i] = BadKeyCode
       THEN [ok |-> FALSE, key_codes |-> <<>>, hash |-> 0]
       ELSE [ok |-> TRUE, key_codes |-> codes, hash |-> get_hash(codes)]

----------------------------------------------------------------------------
(* ActionMapping *)

\* ActionMapping::new without the offset: every key at now
ActionMapping_new_now(key_codes) ==
    [actions |-> <<>>,
     keys |-> [k \in Range(key_codes) |-> now]]

\* ActionMapping::new: every key at now - 60 s, no action
ActionMapping_new(key_codes) ==
    [actions |-> <<>>,
     keys |-> [k \in Range(key_codes) |-> now - Offset]]

\* is_pressed with the comparison turned into >=: the boundary excluded
is_pressed_exclusive(am, window) ==
    ~ \E k \in DOMAIN am.keys : now - am.keys[k] >= window

\* is_pressed satisfied by one recent key instead of all of them
is_pressed_any(am, window) ==
    \E k \in DOMAIN am.keys : now - am.keys[k] <= window

\* ActionMapping::is_pressed: false as soon as one key's age exceeds the window
is_pressed(am, window) ==
    ~ \E k \in DOMAIN am.keys : now - am.keys[k] > window

\* press_key setting every key of the mapping to now
press_key_all(am, key) == [am EXCEPT !.keys = [k \in DOMAIN @ |-> now]]

\* ActionMapping::press_key on a key the mapping holds
press_key(am, key) == [am EXCEPT !.keys[key] = now]

\* ActionMapping::add_action on an action the mapping does not hold
add_action(am, action) == [am EXCEPT !.actions = Append(@, action)]

\* ActionMapping::remove_action
remove_action(am, action) == [am EXCEPT !.actions = retain_ne(@, action)]

----------------------------------------------------------------------------
(* The livesplit Hook.  An OS refusal is an input of the call: refused is   *)
(* the set of keys the OS turns down during this call.                      *)

\* Hook::register(key, callback): fails for a key that already has a
\* callback, and when the OS refuses
hook_register_ok(hk, key, refused) == key \notin hk /\ key \notin refused

\* Hook::unregister(key): fails for a key without a callback, and when the
\* OS refuses
hook_unregister_ok(hk, key, refused) == key \in hk /\ key \notin refused

HookCall(what, key, ok) == [what |-> what, key |-> key, ok |-> ok]

----------------------------------------------------------------------------
(* HotkeyListener::register_action *)

\* the for loop over key_codes, from index i on; st is the state so far
RECURSIVE register_keys(_, _, _, _, _)
register_keys(key_codes, hash, i, st, refused) ==
    IF i > Len(key_codes) THEN [st EXCEPT !.result = "Ok"]
    ELSE
        LET key == key_codes[i] IN
        IF key \in DOMAIN st.reverse_lookup
        THEN register_keys(key_codes, hash, i + 1,
                 [st EXCEPT !.reverse_lookup[key] =
                      IF contains(@, hash) THEN @ ELSE Append(@, hash)],
                 refused)
        ELSE IF ~ hook_register_ok(st.hooks, key, refused)
        THEN [st EXCEPT !.result = "CannotRegisterHotkey",
                        !.hookLog = Append(@, HookCall("register", key, FALSE))]
        ELSE register_keys(key_codes, hash, i + 1,
                 [st EXCEPT !.reverse_lookup = @ @@ (key :> <<hash>>),
                            !.hooks = @ \cup {key},
                            !.hookLog = Append(@, HookCall("register", key, TRUE))],
                 refused)

\* the tables as a record, the way the operators below pass them on
Tables == [actions |-> actions, reverse_lookup |-> reverse_lookup,
           hooks |-> hooks, result |-> "Ok", hookLog |-> <<>>]

\* register_action without add_action's contains check
register_action_unchecked(action_name, keys, refused) ==
    LET c == string_slice_to_vec_and_hash(keys) IN
    IF ~ c.ok THEN [Tables EXCEPT !.result = "BadKeyCodeName"]
    ELSE
        LET table == IF c.hash \in DOMAIN actions
                     THEN [actions EXCEPT ![c.hash] = add_action(@, action_name)]
                     ELSE actions @@
                          (c.hash :> add_action(ActionMapping_new(c.key_codes),
                                                action_name))
        IN register_keys(c.key_codes, c.hash, 1,
                         [Tables EXCEPT !.actions = table], refused)

register_action(action_name, keys, refused) ==
    LET c == string_slice_to_vec_and_hash(keys) IN
    IF ~ c.ok THEN [Tables EXCEPT !.result = "BadKeyCodeName"]
    ELSE IF c.hash \in DOMAIN actions
            /\ contains(actions[c.hash].actions, action_name)
    THEN [Tables EXCEPT !.result = "ActionAlreadyExists"]
    ELSE
        LET table == IF c.hash \in DOMAIN actions
                     THEN [actions EXCEPT ![c.hash] = add_action(@, action_name)]
                     ELSE actions @@
                          (c.hash :> add_action(ActionMapping_new(c.key_codes),
                                                action_name))
        IN register_keys(c.key_codes, c.hash, 1,
                         [Tables EXCEPT !.actions = table], refused)

\* whether the call would add an ActionMapping to the table
creates_group(action_name, keys) ==
    LET c == string_slice_to_vec_and_hash(keys) IN
    c.ok /\ c.hash \notin DOMAIN actions

Commit(st) ==
    /\ actions' = st.actions
    /\ reverse_lookup' = st.reverse_lookup
    /\ hooks' = st.hooks
    /\ result' = st.result
    /\ hookLog' = st.hookLog

Register(action_name, keys, refused) ==
    /\ result # "Panic"
    /\ creates_group(action_name, keys) => Cardinality(DOMAIN actions) < MaxGroups
    /\ Commit(register_action(action_name, keys, refused))
    /\ call' = [op |-> "register", action |-> action_name, keys |-> keys]
    /\ sent' = <<>>
    /\ UNCHANGED <<min_elapsed_time, channel, poll_pc, now>>

----------------------------------------------------------------------------
(* HotkeyListener::unregister_action *)

\* HashMap::remove
without(f, key) == [k \in DOMAIN f \ {key} |-> f[k]]

\* the first for loop leaving every entry as it is
unregister_keys_stale(key_codes, hash, i, st) == st

\* the first for loop: drops hash from every key's entry and collects the
\* keys whose entry became empty; st.empty_keys is the Vec built so far
RECURSIVE unregister_keys(_, _, _, _)
unregister_keys(key_codes, hash, i, st) ==
    IF i > Len(key_codes) THEN st
    ELSE
        LET key == key_codes[i] IN
        IF key \notin DOMAIN st.reverse_lookup
        THEN [st EXCEPT !.result = "Panic"]
        ELSE
            LET v == retain_ne(st.reverse_lookup[key], hash) IN
            unregister_keys(key_codes, hash, i + 1,
                [st EXCEPT !.reverse_lookup[key] = v,
                           !.empty_keys = IF v = <<>> THEN Append(@, key) ELSE @])

\* the second for loop: removes the entries of empty_keys and their hooks
RECURSIVE remove_empty_keys(_, _, _, _)
remove_empty_keys(empty_keys, i, st, refused) ==
    IF i > Len(empty_keys) THEN st
    ELSE
        LET key == empty_keys[i] IN
        IF key \notin DOMAIN st.reverse_lookup
        THEN [st EXCEPT !.result = "Panic"]
        ELSE
            LET removed == [st EXCEPT !.reverse_lookup = without(@, key)] IN
            IF hook_unregister_ok(st.hooks, key, refused)
            THEN remove_empty_keys(empty_keys, i + 1,
                     [removed EXCEPT
                          !.hooks = @ \ {key},
                          !.hookLog = Append(@, HookCall("unregister", key, TRUE))],
                     refused)
            ELSE [removed EXCEPT
                      !.result = "CannotUnregisterHotkey",
                      !.hookLog = Append(@, HookCall("unregister", key, FALSE))]

\* unregister_action without remove_action's contains check
unregister_action_unchecked(action_name, keys, refused) ==
    LET c == string_slice_to_vec_and_hash(keys) IN
    IF ~ c.ok THEN [Tables EXCEPT !.result = "BadKeyCodeName"]
    ELSE IF c.hash \notin DOMAIN actions
    THEN [Tables EXCEPT !.result = "ActionDoesNotExist(Actions)"]
    ELSE
        LET am == remove_action(actions[c.hash], action_name) IN
        IF Len(am.actions) >= 1
        THEN [Tables EXCEPT !.actions[c.hash] = am]
        ELSE
            LET st0 == [actions |-> without(actions, c.hash),
                        reverse_lookup |-> reverse_lookup,
                        hooks |-> hooks, result |-> "Ok", hookLog |-> <<>>,
                        empty_keys |-> <<>>]
                st1 == unregister_keys(c.key_codes, c.hash, 1, st0)
            IN IF st1.result = "Panic" THEN st1
               ELSE remove_empty_keys(st1.empty_keys, 1, st1, refused)

\* unregister_action leaving the group in the table when its last action goes
unregister_action_keeping(action_name, keys, refused) ==
    LET c == string_slice_to_vec_and_hash(keys) IN
    IF ~ c.ok THEN [Tables EXCEPT !.result = "BadKeyCodeName"]
    ELSE IF c.hash \notin DOMAIN actions
    THEN [Tables EXCEPT !.result = "ActionDoesNotExist(Actions)"]
    ELSE IF ~ contains(actions[c.hash].actions, action_name)
    THEN [Tables EXCEPT !.result = "ActionDoesNotExist(ActionMapping)"]
    ELSE [Tables EXCEPT !.actions[c.hash] = remove_action(@, action_name)]

unregister_action(action_name, keys, refused) ==
    LET c == string_slice_to_vec_and_hash(keys) IN
    IF ~ c.ok THEN [Tables EXCEPT !.result = "BadKeyCodeName"]
    ELSE IF c.hash \notin DOMAIN actions
    THEN [Tables EXCEPT !.result = "ActionDoesNotExist(Actions)"]
    ELSE IF ~ contains(actions[c.hash].actions, action_name)
    THEN [Tables EXCEPT !.result = "ActionDoesNotExist(ActionMapping)"]
    ELSE
        LET am == remove_action(actions[c.hash], action_name) IN
        IF Len(am.actions) >= 1
        THEN [Tables EXCEPT !.actions[c.hash] = am]
        ELSE
            LET st0 == [actions |-> without(actions, c.hash),
                        reverse_lookup |-> reverse_lookup,
                        hooks |-> hooks, result |-> "Ok", hookLog |-> <<>>,
                        empty_keys |-> <<>>]
                st1 == unregister_keys(c.key_codes, c.hash, 1, st0)
            IN IF st1.result = "Panic" THEN st1
               ELSE remove_empty_keys(st1.empty_keys, 1, st1, refused)

Unregister(action_name, keys, refused) ==
    /\ result # "Panic"
    /\ Commit(unregister_action(action_name, keys, refused))
    /\ call' = [op |-> "unregister", action |-> action_name, keys |-> keys]
    /\ sent' = <<>>
    /\ UNCHANGED <<min_elapsed_time, channel, poll_pc, now>>

----------------------------------------------------------------------------
(* The hook callback, the clock and the accessors *)

\* the closure given to Hook::register: sender.send(key), on a press of key
Press(key) ==
    /\ result # "Panic"
    /\ key \in hooks
    /\ Len(channel) < MaxQueue
    /\ channel' = Append(channel, key)
    /\ call' = [op |-> "press", key |-> key]
    /\ result' = "Ok"
    /\ sent' = <<>>
    /\ hookLog' = <<>>
    /\ UNCHANGED <<actions, reverse_lookup, hooks, min_elapsed_time, poll_pc, now>>

\* 200 ms pass
Tick ==
    /\ result # "Panic"
    /\ now < MaxTime
    /\ now' = now + 1
    /\ call' = [op |-> "tick"]
    /\ result' = "Ok"
    /\ sent' = <<>>
    /\ hookLog' = <<>>
    /\ UNCHANGED <<actions, reverse_lookup, hooks, min_elapsed_time, channel,
                   poll_pc>>

\* HotkeyListener::set_min_elapsed_time
SetMinElapsedTime(window) ==
    /\ result # "Panic"
    /\ min_elapsed_time' = window
    /\ call' = [op |-> "set_min_elapsed_time"]
    /\ result' = "Ok"
    /\ sent' = <<>>
    /\ hookLog' = <<>>
    /\ UNCHANGED <<actions, reverse_lookup, hooks, channel, poll_pc, now>>

\* the place of an action name in the order of String
name_rank(a) == IF a = "x" THEN 1 ELSE 2

\* the orders in which a HashMap can hand out the entries of the keys in S
Orders(S) ==
    {o \in SeqsUpTo(S, Cardinality(S)) :
        Len(o) = Cardinality(S) /\ Range(o) = S}

\* .values().flat_map(|am| am.actions.clone()).collect(), the values coming
\* in the order of the fingerprints in order
RECURSIVE flat_map_actions(_, _)
flat_map_actions(order, i) ==
    IF i > Len(order) THEN <<>>
    ELSE actions[order[i]].actions \o flat_map_actions(order, i + 1)

\* Vec::sort_unstable on the action names
sort_unstable(r) == SortSeq(r, LAMBDA a, b : name_rank(a) < name_rank(b))

\* Vec::dedup: drops every element equal to the one before it
RECURSIVE dedup(_)
dedup(r) ==
    IF Len(r) <= 1 THEN r
    ELSE IF r[1] = r[2] THEN dedup(Tail(r))
    ELSE <<r[1]>> \o dedup(Tail(r))

\* get_action_names without r.sort_unstable()
get_action_names_unsorted(order) == dedup(flat_map_actions(order, 1))

\* HotkeyListener::get_action_names
get_action_names(order) == dedup(sort_unstable(flat_map_actions(order, 1)))

GetActionNames ==
    /\ result # "Panic"
    /\ \E order \in Orders(DOMAIN actions) :
           call' = [op |-> "get_action_names", value |-> get_action_names(order)]
    /\ result' = "Ok"
    /\ sent' = <<>>
    /\ hookLog' = <<>>
    /\ UNCHANGED <<actions, reverse_lookup, hooks, min_elapsed_time, channel,
                   poll_pc, now>>

----------------------------------------------------------------------------
(* HotkeyListener::poll *)

\* the for loop of poll with a debounce: a group that has its actions sent
\* gets the timestamps of a new group
RECURSIVE poll_hashes_debounce(_, _, _, _)
poll_hashes_debounce(vec, key, i, st) ==
    IF i > Len(vec) THEN st
    ELSE
        LET hash == vec[i] IN
        IF hash \notin DOMAIN st.actions
        THEN [st EXCEPT !.result = "Panic"]
        ELSE IF key \notin DOMAIN st.actions[hash].keys
        THEN [st EXCEPT !.result = "Panic"]
        ELSE
            LET am == press_key(st.actions[hash], key) IN
            poll_hashes_debounce(vec, key, i + 1,
                IF is_pressed(am, min_elapsed_time)
                THEN [st EXCEPT
                         !.actions[hash] =
                             [am EXCEPT !.keys = [k \in DOMAIN @ |-> now - Offset]],
                         !.sent = @ \o am.actions]
                ELSE [st EXCEPT !.actions[hash] = am])

\* the for loop over the hashes of reverse_lookup[key], from index i on;
\* st carries the table, what was sent so far, and the result
RECURSIVE poll_hashes(_, _, _, _)
poll_hashes(vec, key, i, st) ==
    IF i > Len(vec) THEN st
    ELSE
        LET hash == vec[i] IN
        IF hash \notin DOMAIN st.actions
        THEN [st EXCEPT !.result = "Panic"]
        ELSE IF key \notin DOMAIN st.actions[hash].keys
        THEN [st EXCEPT !.result = "Panic"]
        ELSE
            LET am == press_key(st.actions[hash], key) IN
            poll_hashes(vec, key, i + 1,
                [st EXCEPT !.actions[hash] = am,
                           !.sent = IF is_pressed(am, min_elapsed_time)
                                    THEN @ \o am.actions ELSE @])

\* poll receiving the newest event of the channel instead of the oldest
poll_newest ==
    LET st0 == [actions |-> actions, sent |-> <<>>, result |-> "Ok",
                channel |-> channel]
    IN IF channel = <<>> THEN st0
       ELSE
           LET key == channel[Len(channel)]
               st1 == [st0 EXCEPT
                          !.channel = SubSeq(channel, 1, Len(channel) - 1)]
           IN IF key \notin DOMAIN reverse_lookup THEN st1
              ELSE poll_hashes(reverse_lookup[key], key, 1, st1)

poll ==
    LET st0 == [actions |-> actions, sent |-> <<>>, result |-> "Ok",
                channel |-> channel]
    IN IF channel = <<>> THEN st0
       ELSE
           LET key == Head(channel)
               st1 == [st0 EXCEPT !.channel = Tail(channel)]
           IN IF key \notin DOMAIN reverse_lookup THEN st1
              ELSE poll_hashes(reverse_lookup[key], key, 1, st1)

Poll ==
    /\ result # "Panic"
    /\ LET st == poll IN
       /\ actions' = st.actions
       /\ channel' = st.channel
       /\ sent' = st.sent
       /\ result' = st.result
    /\ call' = [op |-> IF channel = <<>> THEN "poll_idle" ELSE "poll"]
    /\ hookLog' = <<>>
    /\ UNCHANGED <<reverse_lookup, hooks, min_elapsed_time, poll_pc, now>>

(* poll in the two steps the hook callback can come between: the check of   *)
(* callback_receiver.is_empty(), and from callback_receiver.recv() on.      *)

\* poll going on to recv() without the is_empty() check
poll_check_skipped == "recv"

\* if self.callback_receiver.is_empty() { return; }
poll_check == IF channel = <<>> THEN "idle" ELSE "recv"

PollCheck ==
    /\ result # "Panic"
    /\ poll_pc = "idle"
    /\ poll_pc' = poll_check
    /\ call' = [op |-> IF channel = <<>> THEN "poll_idle" ELSE "poll_check"]
    /\ result' = "Ok"
    /\ sent' = <<>>
    /\ hookLog' = <<>>
    /\ UNCHANGED <<actions, reverse_lookup, hooks, min_elapsed_time, channel, now>>

\* callback_receiver.recv() and the match on what it returns; recv() waits
\* for as long as the channel is empty
PollRecv ==
    /\ result # "Panic"
    /\ poll_pc = "recv"
    /\ channel # <<>>
    /\ LET st == poll IN
       /\ actions' = st.actions
       /\ channel' = st.channel
       /\ sent' = st.sent
       /\ result' = st.result
    /\ poll_pc' = "idle"
    /\ call' = [op |-> "poll"]
    /\ hookLog' = <<>>
    /\ UNCHANGED <<reverse_lookup, hooks, min_elapsed_time, now>>

----------------------------------------------------------------------------
Init ==
    /\ actions = <<>>
    /\ reverse_lookup = <<>>
    /\ hooks = {}
    /\ min_elapsed_time = DefaultWindow
    /\ channel = <<>>
    /\ poll_pc = "idle"
    /\ now = 0
    /\ call = [op |-> "new"]
    /\ result = "Ok"
    /\ sent = <<>>
    /\ hookLog = <<>>
    /\ calls = 0
    /\ presses = <<>>
    /\ drains = <<>>
    /\ since = <<>>

\* the refusals of the OS that a call naming these keys can meet
Refusals(keys) == SUBSET Range(string_slice_to_vec_and_hash(keys).key_codes)

\* The whole program: every operation, every input, the hook callback and
\* the clock.
Next ==
    \/ \E a \in ActionNames, l \in KeyLists : \E r \in Refusals(l) :
           /\ calls < MaxCalls
           /\ Register(a, l, r)
           /\ calls' = calls + 1
           /\ UNCHANGED <<presses, drains, since>>
    \/ \E a \in ActionNames, l \in KeyLists : \E r \in Refusals(l) :
           /\ calls < MaxCalls
           /\ Unregister(a, l, r)
           /\ calls' = calls + 1
           /\ UNCHANGED <<presses, drains, since>>
    \/ \E k \in KeyCodes : Press(k) /\ UNCHANGED history
    \/ Tick /\ UNCHANGED history
    \/ \E w \in Windows : SetMinElapsedTime(w) /\ UNCHANGED history
    \/ Poll /\ UNCHANGED history

Spec == Init /\ [][Next]_vars

\* Registration and unregistration alone, with longer runs of calls.
NextTables ==
    \/ \E a \in ActionNames, l \in KeyLists : \E r \in Refusals(l) :
           /\ calls < MaxTableCalls
           /\ Register(a, l, r)
           /\ calls' = calls + 1
           /\ UNCHANGED <<presses, drains, since>>
    \/ \E a \in ActionNames, l \in KeyLists : \E r \in Refusals(l) :
           /\ calls < MaxTableCalls
           /\ Unregister(a, l, r)
           /\ calls' = calls + 1
           /\ UNCHANGED <<presses, drains, since>>
    \/ Tick /\ UNCHANGED history

SpecTables == Init /\ [][NextTables]_vars

\* One key sequence of up to MaxCombo distinct keys is registered, each of
\* its keys is pressed at most once, and poll runs at any time.
NextCombo ==
    \/ \E a \in ActionNames, l \in ComboLists :
           /\ calls = 0
           /\ Register(a, l, {})
           /\ calls' = 1
           /\ UNCHANGED <<presses, drains, since>>
    \/ \E k \in KeyCodes :
           /\ \A i \in 1..Len(presses) : presses[i].key # k
           /\ Press(k)
           /\ presses' = Append(presses, [key |-> k, at |-> now,
                                           queued |-> Len(channel)])
           /\ UNCHANGED <<calls, drains, since>>
    \/ Tick /\ UNCHANGED history
    \/ /\ Poll
       /\ drains' = IF channel # <<>> THEN Append(drains, now) ELSE drains
       /\ UNCHANGED <<calls, presses, since>>

SpecCombo == Init /\ [][NextCombo]_vars

\* poll in its two steps, next to the hook callback and the clock, which run
\* at any time; register_action and unregister_action are calls of the
\* thread that polls, and run between two polls.
NextPoll ==
    \/ \E a \in ActionNames, l \in KeyLists :
           /\ calls < MaxCalls
           /\ poll_pc = "idle"
           /\ Register(a, l, {})
           /\ calls' = calls + 1
           /\ UNCHANGED <<presses, drains, since>>
    \/ \E a \in ActionNames, l \in KeyLists :
           /\ calls < MaxCalls
           /\ poll_pc = "idle"
           /\ Unregister(a, l, {})
           /\ calls' = calls + 1
           /\ UNCHANGED <<presses, drains, since>>
    \/ \E k \in KeyCodes : Press(k) /\ UNCHANGED history
    \/ Tick /\ UNCHANGED history
    \/ PollCheck /\ UNCHANGED history
    \/ PollRecv /\ UNCHANGED history

SpecPoll == Init /\ [][NextPoll]_vars

\* Registration and unregistration, the OS refusing nothing, and the list of
\* action names read at any time.
NextNames ==
    \/ \E a \in ActionNames, l \in KeyLists :
           /\ calls < MaxTableCalls
           /\ Register(a, l, {})
           /\ calls' = calls + 1
           /\ UNCHANGED <<presses, drains, since>>
    \/ \E a \in ActionNames, l \in KeyLists :
           /\ calls < MaxTableCalls
           /\ Unregister(a, l, {})
           /\ calls' = calls + 1
           /\ UNCHANGED <<presses, drains, since>>
    \/ GetActionNames /\ UNCHANGED history

SpecNames == Init /\ [][NextNames]_vars

\* the key-name lists of SpecGroups: known names, none of them twice
GroupLists ==
    {l \in KeyLists :
        /\ string_slice_to_vec_and_hash(l).ok
        /\ \A i, j \in 1..Len(l) : i # j => l[i] # l[j]}

\* the action names of SpecGroups: one name, which all groups share
GroupNames == {"x"}

\* what since holds for a group the table did not have
Fresh == [pressed |-> {}, drained |-> {}, triggers |-> 0]

\* The life of the groups: they are created, triggered, removed and created
\* again, the OS refusing nothing.  For each group of the table, since
\* records the keys of the group pressed since the group was created, the
\* keys whose event poll received since then, and how many times poll found
\* the group pressed since then (counted up to two).
NextGroups ==
    \/ \E a \in GroupNames, l \in GroupLists :
           /\ calls < MaxGroupCalls
           /\ Register(a, l, {})
           /\ calls' = calls + 1
           /\ since' = [f \in DOMAIN actions' |->
                            IF f \in DOMAIN since THEN since[f] ELSE Fresh]
           /\ UNCHANGED <<presses, drains>>
    \/ \E a \in GroupNames, l \in GroupLists :
           /\ calls < MaxGroupCalls
           /\ Unregister(a, l, {})
           /\ calls' = calls + 1
           /\ since' = [f \in DOMAIN actions' |-> since[f]]
           /\ UNCHANGED <<presses, drains>>
    \/ \E k \in KeyCodes :
           /\ Press(k)
           /\ since' = [f \in DOMAIN since |->
                            IF k \in DOMAIN actions[f].keys
                            THEN [since[f] EXCEPT !.pressed = @ \cup {k}]
                            ELSE since[f]]
           /\ UNCHANGED <<calls, presses, drains>>
    \/ Tick /\ UNCHANGED history
    \/ \E w \in Windows : SetMinElapsedTime(w) /\ UNCHANGED history
    \/ /\ Poll
       /\ since' = [f \in DOMAIN since |->
                        IF /\ channel # <<>>
                           /\ Head(channel) \in DOMAIN reverse_lookup
                           /\ contains(reverse_lookup[Head(channel)], f)
                        THEN [since[f] EXCEPT
                                 !.drained = @ \cup {Head(channel)},
                                 !.triggers =
                                     IF @ < 2 /\ is_pressed(
                                            press_key(actions[f], Head(channel)),
                                            min_elapsed_time)
                                     THEN @ + 1 ELSE @]
                        ELSE since[f]]
       /\ UNCHANGED <<calls, presses, drains>>

SpecGroups == Init /\ [][NextGroups]_vars

\* the hook callback of a run of SpecDrain: at most MaxPresses presses
DrainPress(k) ==
    /\ Len(presses) < MaxPresses
    /\ Press(k)
    /\ presses' = Append(presses, [key |-> k, at |-> now,
                                    queued |-> Len(channel)])
    /\ UNCHANGED <<calls, drains, since>>

DrainCheck == PollCheck /\ UNCHANGED history

DrainRecv ==
    /\ PollRecv
    /\ drains' = Append(drains, now)
    /\ UNCHANGED <<calls, presses, since>>

\* Finitely many presses of hooked keys, queued by the hook callback at any
\* time, and a thread that registers, unregisters and polls.
NextDrain ==
    \/ \E a \in GroupNames, l \in GroupLists :
           /\ calls < MaxCalls
           /\ poll_pc = "idle"
           /\ Register(a, l, {})
           /\ calls' = calls + 1
           /\ UNCHANGED <<presses, drains, since>>
    \/ \E a \in GroupNames, l \in GroupLists :
           /\ calls < MaxCalls
           /\ poll_pc = "idle"
           /\ Unregister(a, l, {})
           /\ calls' = calls + 1
           /\ UNCHANGED <<presses, drains, since>>
    \/ \E k \in KeyCodes : DrainPress(k)
    \/ Tick /\ UNCHANGED history
    \/ DrainCheck
    \/ DrainRecv

\* poll keeps being called, and a call that has started goes on
SpecDrain ==
    /\ Init
    /\ [][NextDrain]_vars
    /\ WF_vars(DrainCheck)
    /\ WF_vars(DrainRecv)

----------------------------------------------------------------------------
(* Properties *)

NoRepeats(v) == \A i, j \in 1..Len(v) : i # j => v[i] # v[j]

\* the age of key j of group f once the drained key k is set to now
AgeAfterDrain(f, j, k) == IF j = k THEN 0 ELSE now - actions[f].keys[j]

FullyPressed(f, k) ==
    \A j \in DOMAIN actions[f].keys : AgeAfterDrain(f, j, k) <= min_elapsed_time

\* what poll owes the sink for the groups of vec, from index i on
RECURSIVE ExpectedSent(_, _, _)
ExpectedSent(vec, k, i) ==
    IF i > Len(vec) THEN <<>>
    ELSE (IF FullyPressed(vec[i], k) THEN actions[vec[i]].actions ELSE <<>>)
         \o ExpectedSent(vec, k, i + 1)

\* C1: when poll drains an event for key k, every group f listed in
\* reverse_lookup[k] whose keys all have an age <= min_elapsed_time (k's age
\* being 0 by then, the boundary included) has each of its actions sent
\* once, in the order of its action list, and a group with a key older than
\* min_elapsed_time has nothing sent; poll sends nothing else.
C1_PollEmitsFullyPressedGroups ==
    [][(call'.op = "poll" /\ Head(channel) \in DOMAIN reverse_lookup) =>
        LET k == Head(channel)
            vec == reverse_lookup[k]
        IN /\ NoRepeats(vec)
           /\ \A i \in 1..Len(vec) :
                  /\ vec[i] \in DOMAIN actions
                  /\ k \in DOMAIN actions[vec[i]].keys
                  /\ NoRepeats(actions[vec[i]].actions)
           /\ result' = "Ok"
           /\ sent' = ExpectedSent(vec, k, 1)]_vars

\* C1 witness: poll has just sent the two actions of a group in their
\* order, one key of the group being exactly min_elapsed_time old.
C1_Witness ==
    /\ call.op = "poll"
    /\ Len(sent) = 2
    /\ \E f \in DOMAIN actions :
           /\ sent = actions[f].actions
           /\ \E j \in DOMAIN actions[f].keys :
                  now - actions[f].keys[j] = min_elapsed_time

\* the key sequence of a run of SpecCombo: a group of n keys with one
\* action under the default window, each key pressed at most once
ComboOf(f, n) ==
    /\ Cardinality(DOMAIN actions[f].keys) = n
    /\ Len(actions[f].actions) = 1
    /\ min_elapsed_time = DefaultWindow
    /\ \A i \in 1..Len(presses) : presses[i].key \in DOMAIN actions[f].keys

Gap(a, b) == IF a >= b THEN a - b ELSE b - a

Fingerprints ==
    DOMAIN actions
    \cup UNION {Range(reverse_lookup[k]) : k \in DOMAIN reverse_lookup}

\* C4: fingerprint f is listed in reverse_lookup[k] if and only if the table
\* holds a group with fingerprint f that has k among its keys.
C4_IndexMatchesGroups ==
    \A k \in KeyCodes : \A f \in Fingerprints :
        (k \in DOMAIN reverse_lookup /\ contains(reverse_lookup[k], f))
        <=> (f \in DOMAIN actions /\ k \in DOMAIN actions[f].keys)

\* the engine state a failed call has to leave alone
Untouched ==
    /\ UNCHANGED <<actions, reverse_lookup, hooks>>
    /\ hookLog' = <<>>

HasBadName(l) == \E i \in 1..Len(l) : from_str(l[i]) = BadKeyCode

\* action a is bound in the group of key-name list l
BoundUnder(a, l) ==
    LET c == string_slice_to_vec_and_hash(l) IN
    c.ok /\ c.hash \in DOMAIN actions /\ contains(actions[c.hash].actions, a)

\* C5: register_action of an action already bound under the fingerprint of
\* the keys returns ActionAlreadyExists and leaves the group's action list
\* and timestamps, the reverse lookup and the hooks as they were.
C5_RebindFailsUntouched ==
    [][(call'.op = "register" /\ BoundUnder(call'.action, call'.keys))
       => (result' = "ActionAlreadyExists" /\ Untouched)]_vars

\* C5 witness: a register call has just returned ActionAlreadyExists on a
\* group created at an earlier time.
C5_Witness ==
    /\ call.op = "register"
    /\ result = "ActionAlreadyExists"
    /\ \E f \in DOMAIN actions : \E k \in DOMAIN actions[f].keys :
           actions[f].keys[k] < now - Offset

\* C6: unregister_action returns ActionDoesNotExist(Actions) when the table
\* has no group for the fingerprint of the keys, ActionDoesNotExist(
\* ActionMapping) when the group does not hold the action, and in both cases
\* leaves the table, the reverse lookup and the hooks as they were.
C6_UnregisterMissingFailsUntouched ==
    [][(/\ call'.op = "unregister"
        /\ ~ HasBadName(call'.keys)
        /\ ~ BoundUnder(call'.action, call'.keys))
       => /\ result' =
                 IF string_slice_to_vec_and_hash(call'.keys).hash \in DOMAIN actions
                 THEN "ActionDoesNotExist(ActionMapping)"
                 ELSE "ActionDoesNotExist(Actions)"
          /\ Untouched]_vars

\* C6 witness: an unregister call has just returned ActionDoesNotExist(
\* ActionMapping), with two groups in the table.
C6_Witness ==
    /\ call.op = "unregister"
    /\ result = "ActionDoesNotExist(ActionMapping)"
    /\ Cardinality(DOMAIN actions) = 2

\* C7: register_action and unregister_action of a key-name list holding an
\* unknown name, at any position and next to any known names, return
\* BadKeyCodeName and leave the table, the reverse lookup and the hooks as
\* they were.
C7_BadKeyNameUntouched ==
    [][(call'.op \in {"register", "unregister"} /\ HasBadName(call'.keys))
       => (result' = "BadKeyCodeName" /\ Untouched)]_vars

\* C7 witness: a call naming a known key before an unknown one has just
\* returned BadKeyCodeName, with a group in the table and a hook installed.
C7_Witness ==
    /\ call.op \in {"register", "unregister"}
    /\ Len(call.keys) = 2
    /\ from_str(call.keys[1]) # BadKeyCode
    /\ from_str(call.keys[2]) = BadKeyCode
    /\ result = "BadKeyCodeName"
    /\ actions # <<>>
    /\ hooks # {}

IsPermutation(l1, l2) ==
    /\ Len(l1) = Len(l2)
    /\ \A n \in Names :
           Cardinality({i \in 1..Len(l1) : l1[i] = n})
           = Cardinality({i \in 1..Len(l2) : l2[i] = n})

\* every key of the key-name list l has an index entry and a hook
Indexed(l) ==
    \A k \in Range(string_slice_to_vec_and_hash(l).key_codes) :
        k \in DOMAIN reverse_lookup /\ k \in hooks

\* C8: every permutation of a key-name list has the fingerprint of the list;
\* with action a registered under list L (bound in L's group, every key of
\* L indexed and hooked), register_action(a, p(L)) returns
\* ActionAlreadyExists and unregister_action(a, p(L)), the OS refusing
\* nothing, returns Ok and takes a out of L's group, for every permutation
\* p(L) of L.
C8_PermutationsShareTheGroup ==
    [][\A l \in KeyLists :
          (/\ call'.op \in {"register", "unregister"}
           /\ IsPermutation(l, call'.keys)
           /\ BoundUnder(call'.action, l)
           /\ Indexed(l))
          => LET f == string_slice_to_vec_and_hash(l).hash IN
             /\ string_slice_to_vec_and_hash(call'.keys).hash = f
             /\ call'.op = "register" => result' = "ActionAlreadyExists"
             /\ (/\ call'.op = "unregister"
                 /\ \A i \in 1..Len(hookLog') : hookLog'[i].ok)
                => /\ result' = "Ok"
                   /\ f \in DOMAIN actions' =>
                          ~ contains(actions'[f].actions, call'.action)]_vars

\* C9: an unregister_action that returns Ok leaves every other action's
\* hotkeys alone.  The group keeps actions: the reverse lookup, the hooks and
\* all timestamps are unchanged and the remaining actions keep their order.
\* The group is deleted: every other group is unchanged, and every key of
\* another group keeps its index entry and its hook.
C9_UnregisterLeavesOthersAlone ==
    [][(call'.op = "unregister" /\ result' = "Ok")
       => LET f == string_slice_to_vec_and_hash(call'.keys).hash IN
          /\ \A g \in DOMAIN actions \ {f} :
                 g \in DOMAIN actions' /\ actions'[g] = actions[g]
          /\ f \in DOMAIN actions' =>
                 /\ UNCHANGED <<reverse_lookup, hooks>>
                 /\ actions'[f].keys = actions[f].keys
                 /\ actions'[f].actions
                    = retain_ne(actions[f].actions, call'.action)
          /\ f \notin DOMAIN actions' =>
                 \A g \in DOMAIN actions \ {f} :
                     \A k \in DOMAIN actions[g].keys :
                         /\ k \in DOMAIN reverse_lookup
                                => k \in DOMAIN reverse_lookup'
                         /\ k \in hooks => k \in hooks']_vars

\* the Hook::unregister calls made for key k by the step taken last
Uninstalls(log, k) ==
    {i \in 1..Len(log) : log[i].what = "unregister" /\ log[i].key = k}

\* C10: when an unregister_action removes the last fingerprint listed for a
\* key k, k has no reverse_lookup entry afterwards and Hook::unregister(k)
\* was called exactly once by that call.
C10_LastReferenceUnhooksOnce ==
    [][(call'.op = "unregister" /\ BoundUnder(call'.action, call'.keys))
       => LET c == string_slice_to_vec_and_hash(call'.keys) IN
          c.hash \notin DOMAIN actions' =>
              \A k \in Range(c.key_codes) :
                  (k \in DOMAIN reverse_lookup
                   /\ Range(reverse_lookup[k]) = {c.hash})
                  => /\ k \notin DOMAIN reverse_lookup'
                     /\ Cardinality(Uninstalls(hookLog', k)) = 1]_vars

\* C11: in every state the program runs on from, the keys with an installed
\* hook are the keys with a reverse_lookup entry, every entry lists at least
\* one fingerprint, and Hook::register was not called for a key that held a
\* hook (such a call fails and leaves the key hooked).
C11_HooksMatchIndex ==
    result # "Panic" =>
        /\ hooks = DOMAIN reverse_lookup
        /\ \A k \in DOMAIN reverse_lookup : reverse_lookup[k] # <<>>
        /\ \A i \in 1..Len(hookLog) :
               (hookLog[i].what = "register" /\ ~ hookLog[i].ok)
               => hookLog[i].key \notin hooks

\* C12: poll neither waits nor receives more than one event, whatever the
\* hook callback does meanwhile.  A poll that finds the channel empty returns
\* with the tables, the timestamps, the channel and the sink as they were; a
\* poll that goes on to recv() finds an event there, however long it takes to
\* get to it; and recv() takes the oldest event off the channel, leaves the
\* others queued in their order, and the poll returns.
C12_PollDrainsOneWithoutBlocking ==
    [][/\ (call'.op \in {"poll_idle", "poll_check"} /\ channel = <<>>)
          => /\ call'.op = "poll_idle"
             /\ poll_pc' = "idle"
             /\ sent' = <<>>
             /\ UNCHANGED <<actions, reverse_lookup, hooks, channel>>
       /\ poll_pc' = "recv" => channel' # <<>>
       /\ call'.op = "poll"
          => /\ channel # <<>>
             /\ channel' = Tail(channel)
             /\ poll_pc' = "idle"]_vars

\* C12 witness: a poll stands between its check and its recv(), the hook
\* callback has just queued a second event behind the one the check saw.
C12_Witness ==
    /\ poll_pc = "recv"
    /\ call.op = "press"
    /\ Len(channel) = 2

\* C13: every group in the table holds at least one action.  A
\* register_action for a fingerprint the table does not hold puts the group
\* there with the action as its only one; an unregister_action of a bound
\* action takes the group out of the table in that call exactly when it
\* leaves the group no action; and no other step adds or removes a group.
C13_GroupsHoldActions ==
    [][LET f == string_slice_to_vec_and_hash(call'.keys).hash IN
       /\ \A g \in DOMAIN actions' : actions'[g].actions # <<>>
       /\ (call'.op = "register" /\ creates_group(call'.action, call'.keys))
          => /\ f \in DOMAIN actions'
             /\ actions'[f].actions = <<call'.action>>
       /\ (call'.op = "unregister" /\ BoundUnder(call'.action, call'.keys))
          => (f \in DOMAIN actions'
              <=> retain_ne(actions[f].actions, call'.action) # <<>>)
       /\ DOMAIN actions' # DOMAIN actions
          => \/ call'.op = "register" /\ creates_group(call'.action, call'.keys)
             \/ call'.op = "unregister" /\ BoundUnder(call'.action, call'.keys)]_vars

\* C13 witness: an unregister_action has just taken a group of two keys out
\* of the table with its last action, and another group stays.
C13_Witness ==
    /\ call.op = "unregister"
    /\ result = "Ok"
    /\ Len(call.keys) = 2
    /\ string_slice_to_vec_and_hash(call.keys).hash \notin DOMAIN actions
    /\ actions # <<>>

\* the action names bound in at least one group
BoundNames ==
    {a \in ActionNames : \E f \in DOMAIN actions : contains(actions[f].actions, a)}

\* C14: get_action_names returns the action names bound in at least one
\* group, each once and in ascending order, in whatever order the table
\* hands out its groups and also when a name is bound in two groups.
C14_ActionNamesSortedDistinct ==
    call.op = "get_action_names" =>
        /\ Range(call.value) = BoundNames
        /\ \A i, j \in 1..Len(call.value) :
               i < j => name_rank(call.value[i]) < name_rank(call.value[j])

\* C14 witness: get_action_names has just returned two names, one of them
\* bound in two groups, the group with the smaller fingerprint holding them
\* in the other order.
C14_Witness ==
    /\ call.op = "get_action_names"
    /\ call.value = <<"x", "y">>
    /\ \E f, g \in DOMAIN actions :
           /\ f < g
           /\ actions[f].actions = <<"y", "x">>
           /\ actions[g].actions = <<"x">>

Occurrences(v, a) == Cardinality({i \in 1..Len(v) : v[i] = a})

\* the groups listed for key k that hold action a and satisfy P
GroupsOf(k, a, P(_)) ==
    {f \in Range(reverse_lookup[k]) \cap DOMAIN actions :
        contains(actions[f].actions, a) /\ P(f)}

\* every key of group f has had an event received since f was created, the
\* event for k that is being received counted in
AllDrained(f, k) == DOMAIN actions[f].keys \subseteq since[f].drained \cup {k}

\* C15: a register_action that creates a group, the first time or again
\* after the group was removed, gives every key of the group the timestamp
\* now - 60 s whatever the removed group held; and under every window set
\* through set_min_elapsed_time, poll sends an action only for groups all of
\* whose keys had an event received since the group was created: it sends
\* an action name at most once per such group.
C15_FreshGroupNotTriggered ==
    [][/\ (call'.op = "register" /\ creates_group(call'.action, call'.keys))
          => LET f == string_slice_to_vec_and_hash(call'.keys).hash IN
             \A j \in DOMAIN actions'[f].keys : actions'[f].keys[j] = now - Offset
       /\ (call'.op = "poll" /\ Head(channel) \in DOMAIN reverse_lookup)
          => LET k == Head(channel)
                 Drained(f) == AllDrained(f, k)
             IN \A a \in ActionNames :
                    Occurrences(sent', a) <= Cardinality(GroupsOf(k, a, Drained))]_vars

\* C16: sending a group's actions leaves its timestamps as the event set
\* them.  When poll receives an event for key k and finds a group listed for
\* k pressed (every key's age <= min_elapsed_time), the group's timestamps
\* afterwards are the old ones with k's set to now; and when the group was
\* found pressed before, its actions are sent again: poll sends an action
\* name at least once per such group holding it.
C16_EmissionKeepsTimestamps ==
    [][(call'.op = "poll" /\ Head(channel) \in DOMAIN reverse_lookup)
       => LET k == Head(channel)
              Pressed(f) == FullyPressed(f, k)
              PressedAgain(f) == since[f].triggers >= 1 /\ FullyPressed(f, k)
          IN /\ \A f \in Range(reverse_lookup[k]) \cap DOMAIN actions :
                    Pressed(f) =>
                        /\ f \in DOMAIN actions'
                        /\ actions'[f].keys = [actions[f].keys EXCEPT ![k] = now]
             /\ \A a \in ActionNames :
                    Occurrences(sent', a) >= Cardinality(GroupsOf(k, a, PressedAgain))]_vars

\* C16 witness: poll has just sent the action of a group of two keys for the
\* second time, one key of the group keeping the timestamp of a tick ago.
C16_Witness ==
    /\ call.op = "poll"
    /\ sent # <<>>
    /\ \E f \in DOMAIN actions :
           /\ since[f].triggers = 2
           /\ Cardinality(DOMAIN actions[f].keys) = 2
           /\ \E j \in DOMAIN actions[f].keys : actions[f].keys[j] = now - 1
           /\ \E j \in DOMAIN actions[f].keys : actions[f].keys[j] = now

\* C17: a poll that receives an event for key k sets k's timestamp to now in
\* every group listed in reverse_lookup[k] and changes nothing else: the
\* other timestamps of those groups, the groups not listed for k, the action
\* lists, the reverse lookup, the hooks and the window stay as they were.
\* When k has no reverse_lookup entry the table stays as it was and nothing
\* is sent.
C17_DrainStampsOnlyTheKey ==
    [][call'.op = "poll"
       => LET k == Head(channel) IN
          /\ UNCHANGED <<reverse_lookup, hooks, min_elapsed_time>>
          /\ k \notin DOMAIN reverse_lookup
             => (UNCHANGED actions /\ sent' = <<>>)
          /\ k \in DOMAIN reverse_lookup
             => /\ DOMAIN actions' = DOMAIN actions
                /\ \A f \in DOMAIN actions :
                       /\ actions'[f].actions = actions[f].actions
                       /\ DOMAIN actions'[f].keys = DOMAIN actions[f].keys
                       /\ \A j \in DOMAIN actions[f].keys :
                              actions'[f].keys[j] =
                                  IF j = k /\ contains(reverse_lookup[k], f)
                                  THEN now ELSE actions[f].keys[j]]_vars

\* C17 witness: poll has just set a key's timestamp in the two groups listed
\* for it, and another key of one of them keeps an older timestamp.
C17_Witness ==
    /\ call.op = "poll"
    /\ \E k \in DOMAIN reverse_lookup :
           /\ Len(reverse_lookup[k]) = 2
           /\ \A i \in 1..2 :
                  /\ reverse_lookup[k][i] \in DOMAIN actions
                  /\ actions[reverse_lookup[k][i]].keys[k] = now
           /\ \E i \in 1..2 :
                  \E j \in DOMAIN actions[reverse_lookup[k][i]].keys :
                      actions[reverse_lookup[k][i]].keys[j] < now

\* C18: unregister_action reaches none of its unreachable!() branches, for
\* every key-name list register_action accepts and after every history of
\* calls: each key of the list has a reverse_lookup entry when the first
\* loop looks it up, and each key of empty_keys has one when the second loop
\* removes it.
C18_UnregisterNeverPanics ==
    call.op = "unregister" => result # "Panic"

\* C19: the lookups of poll succeed.  After every step, whatever the calls
\* before returned, each fingerprint listed in reverse_lookup[k] has a group
\* in the table with k among its keys; a group is created with the keys of
\* its key list and keeps that key set for as long as it is in the table;
\* and poll reaches neither its unreachable!() nor the one of press_key.
C19_PollLookupsSucceed ==
    [][/\ \A k \in DOMAIN reverse_lookup' :
              \A i \in 1..Len(reverse_lookup'[k]) :
                  /\ reverse_lookup'[k][i] \in DOMAIN actions'
                  /\ k \in DOMAIN actions'[reverse_lookup'[k][i]].keys
       /\ \A f \in DOMAIN actions' :
              DOMAIN actions'[f].keys =
                  IF f \in DOMAIN actions THEN DOMAIN actions[f].keys
                  ELSE Range(string_slice_to_vec_and_hash(call'.keys).key_codes)
       /\ call'.op = "poll" => result' # "Panic"]_vars

\* C19 witness: poll has just set the timestamp of a key in a group another
\* key of which has no reverse_lookup entry, its hook having been refused.
C19_Witness ==
    /\ call.op = "poll"
    /\ result = "Ok"
    /\ \E f \in DOMAIN actions :
           /\ \E j \in DOMAIN actions[f].keys : j \notin DOMAIN reverse_lookup
           /\ \E k \in DOMAIN actions[f].keys :
                  /\ k \in DOMAIN reverse_lookup
                  /\ contains(reverse_lookup[k], f)
                  /\ actions[f].keys[k] = now

\* every key of group f was pressed, its event queued by the hook callback,
\* since f was created
AllPressed(f) == DOMAIN actions[f].keys \subseteq since[f].pressed

\* C20: poll sends an action only for groups every key of which was pressed
\* after the creation of the group now in the table; an event queued before
\* the group was created does not count for it.  Poll sends an action name
\* at most once per group listed for the received key that holds the name
\* and had all its keys pressed since its creation.
C20_OnlyPressesSinceCreationCount ==
    [][(call'.op = "poll" /\ Head(channel) \in DOMAIN reverse_lookup)
       => \A a \in ActionNames :
              Occurrences(sent', a)
              <= Cardinality(GroupsOf(Head(channel), a, AllPressed))]_vars

\* the keys of the events queued and not yet received, oldest first
Pending ==
    [i \in 1..(Len(presses) - Len(drains)) |-> presses[Len(drains) + i].key]

\* C21: no key event is lost, duplicated or reordered.  The channel holds
\* at all times the events queued and not yet received, in the order they
\* were queued; a poll that finds the channel non-empty receives the oldest
\* of them and no other step takes an event off the channel, so that n
\* pending events take n such polls; and with finitely many presses and
\* poll called again and again, the n-th event queued is received in the
\* end, for every n.
C21_EveryEventDrainedInOrder ==
    /\ [](channel = Pending)
    /\ [][/\ call'.op = "poll"
             => /\ channel # <<>>
                /\ channel' = Tail(channel)
                /\ Len(drains') = Len(drains) + 1
          /\ call'.op # "poll"
             => /\ Len(channel') >= Len(channel)
                /\ drains' = drains]_vars
    /\ \A n \in 1..MaxPresses :
           [](Len(presses) >= n => <>(Len(drains) >= n))

\* C21 witness: the last of three events has just been received, two of
\* them of the same key, and one queued behind another.
C21_Witness ==
    /\ call.op = "poll"
    /\ Len(presses) = 3
    /\ Len(drains) = 3
    /\ channel = <<>>
    /\ \E i, j \in 1..3 : i # j /\ presses[i].key = presses[j].key
    /\ \E i \in 1..3 : presses[i].queued = 1

====
